---- MODULE Spec2Model ----
(***************************************************************************)
(* Liturgical calendar (1962 rubrics): computus, season classifier,        *)
(* sanctoral builder, precedence resolver and the Calendar orchestrator.   *)
(*                                                                         *)
(* A NaiveDate is modelled by its day number (days since 1970-01-01 in the *)
(* proleptic Gregorian calendar); from_ymd_opt and the year/month/day      *)
(* accessors are the two conversions between day numbers and civil dates.  *)
(* An Option is a sequence of length 0 (None) or 1 (Some).  A String built *)
(* by format! is the tuple of its pieces.  The Latin and vernacular titles *)
(* of a Celebration and the readings/notes lookups are left out.           *)
(***************************************************************************)
EXTENDS Integers, Sequences, FiniteSets, TLC

VARIABLES pc, year, mf, date, temporal, sanctoral, days, got,
          temporal_celebration, sanctoral_celebrations, ret,
          calendars, builds, cache, mutex, threads, executed

vars == <<pc, year, mf, date, temporal, sanctoral, days, got,
          temporal_celebration, sanctoral_celebrations, ret,
          calendars, builds, cache, mutex, threads, executed>>

\* what the callers of Calendar::new keep: the calendars returned so far, by
\* year, and the number of calls that have returned
build_vars == <<calendars, builds>>

\* the state of the HTTP layer: the cache behind its mutex, the handlers
\* running get_calendar, and the number of runs of Calendar::new per year
api_vars == <<cache, mutex, threads, executed>>

(* ------------------------------ bounds --------------------------------- *)

\* years for which a Calendar is built
YearMin == 2019
YearMax == 2030
\* years on which easter is applied on its own
EasterYearMin == 1900
EasterYearMax == 2100

(* ------------------------- Option, NaiveDate --------------------------- *)

None == << >>
Some(x) == << x >>
unwrap(o) == o[1]

\* Rust's integer division and remainder truncate toward zero
div(a, b) == IF a >= 0 THEN a \div b ELSE -((-a) \div b)
rem(a, b) == a - b * div(a, b)

is_leap_year(y) == y % 4 = 0 /\ (y % 100 # 0 \/ y % 400 = 0)

days_in_month(y, m) ==
    IF m = 2 THEN (IF is_leap_year(y) THEN 29 ELSE 28)
    ELSE IF m \in {4, 6, 9, 11} THEN 30 ELSE 31

\* day number of the civil date y-m-d (m in 1..12, d in 1..days_in_month)
days_from_civil(y, m, d) ==
    LET yy  == IF m <= 2 THEN y - 1 ELSE y
        era == yy \div 400
        yoe == yy - era * 400
        mp  == IF m > 2 THEN m - 3 ELSE m + 9
        doy == (153 * mp + 2) \div 5 + d - 1
        doe == yoe * 365 + yoe \div 4 - yoe \div 100 + doy
    IN  era * 146097 + doe - 719468

\* civil date [y, m, d] of a day number
civil_from_days(n) ==
    LET z   == n + 719468
        era == z \div 146097
        doe == z - era * 146097
        yoe == (doe - doe \div 1460 + doe \div 36524 - doe \div 146096) \div 365
        doy == doe - (365 * yoe + yoe \div 4 - yoe \div 100)
        mp  == (5 * doy + 2) \div 153
        d   == doy - (153 * mp + 2) \div 5 + 1
        m   == IF mp < 10 THEN mp + 3 ELSE mp - 9
    IN  [y |-> IF m <= 2 THEN yoe + era * 400 + 1 ELSE yoe + era * 400,
         m |-> m, d |-> d]

\* the years a chrono NaiveDate can hold
MAX_YEAR == 262142
MIN_YEAR == 0 - 262143

\* NaiveDate::from_ymd_opt: None unless the year is one a NaiveDate holds and
\* the month/day exists in that year
from_ymd_opt(y, m, d) ==
    IF y >= MIN_YEAR /\ y <= MAX_YEAR /\ m \in 1..12 /\ d >= 1 /\ d <= days_in_month(y, m)
    THEN Some(days_from_civil(y, m, d))
    ELSE None

year_of(n)  == civil_from_days(n).y
month_of(n) == civil_from_days(n).m
day_of(n)   == civil_from_days(n).d

\* Weekday::num_days_from_sunday of a date (1970-01-01 was a Thursday)
num_days_from_sunday(n) == (n + 4) % 7

WeekdayNames == <<"Sun", "Mon", "Tue", "Wed", "Thu", "Fri", "Sat">>
\* Datelike::weekday, as the Debug name of the Weekday
weekday(n) == WeekdayNames[num_days_from_sunday(n) + 1]

(* ------------------------------ computus ------------------------------- *)

\* easter_month_day with the day left zero-based (the `+ 1` forgotten)
easter_month_day_zero_based(y) ==
    LET a == rem(y, 19)
        b == div(y, 100)
        c == rem(y, 100)
        d == div(b, 4)
        e == rem(b, 4)
        f == div(b + 8, 25)
        g == div(b - f + 1, 3)
        h == rem(19 * a + b - d - g + 15, 30)
        i == div(c, 4)
        k == rem(c, 4)
        l == rem(32 + 2 * e + 2 * i - h - k, 7)
        m == div(a + 11 * h + 22 * l, 451)
    IN  [month |-> div(h + l - 7 * m + 114, 31),
         day   |-> rem(h + l - 7 * m + 114, 31)]

\* month and day produced by the Meeus/Jones/Butcher arithmetic
easter_month_day(y) ==
    LET a == rem(y, 19)
        b == div(y, 100)
        c == rem(y, 100)
        d == div(b, 4)
        e == rem(b, 4)
        f == div(b + 8, 25)
        g == div(b - f + 1, 3)
        h == rem(19 * a + b - d - g + 15, 30)
        i == div(c, 4)
        k == rem(c, 4)
        l == rem(32 + 2 * e + 2 * i - h - k, 7)
        m == div(a + 11 * h + 22 * l, 451)
    IN  [month |-> div(h + l - 7 * m + 114, 31),
         day   |-> rem(h + l - 7 * m + 114, 31) + 1]

\* Option<NaiveDate> handed to expect() in easter
easter_opt(y) ==
    LET md == easter_month_day(y) IN from_ymd_opt(y, md.month, md.day)

easter(y) == unwrap(easter_opt(y))


\* christ_the_king with the weekday counted from Monday
christ_the_king_from_monday(y) ==
    LET oct31 == unwrap(from_ymd_opt(y, 10, 31))
        days_from_monday == (num_days_from_sunday(oct31) + 6) % 7
    IN  oct31 - days_from_monday

\* christ_the_king of moveable_feasts: the last Sunday of October
christ_the_king(y) ==
    LET oct31 == unwrap(from_ymd_opt(y, 10, 31))
        days_from_sunday == num_days_from_sunday(oct31)
    IN  oct31 - days_from_sunday

\* advent_1 going back to the previous Sunday up to Thursday
advent_1_back_until_thursday(y) ==
    LET nov30 == unwrap(from_ymd_opt(y, 11, 30))
        days_from_sun == num_days_from_sunday(nov30)
    IN  IF days_from_sun <= 4
        THEN nov30 - days_from_sun
        ELSE nov30 + (7 - days_from_sun)

\* advent_1 of moveable_feasts: the Sunday nearest to November 30
advent_1(y) ==
    LET nov30 == unwrap(from_ymd_opt(y, 11, 30))
        days_from_sun == num_days_from_sunday(nov30)
    IN  IF days_from_sun <= 3
        THEN nov30 - days_from_sun
        ELSE nov30 + (7 - days_from_sun)

\* ember_days without the reduction modulo 7 of days_to_sun
ember_days_without_modulo(y, ash_wednesday, pentecost, advent_1_date) ==
    LET first_sunday_of_lent == ash_wednesday + 4
        lent_ember == <<first_sunday_of_lent + 3, first_sunday_of_lent + 5,
                        first_sunday_of_lent + 6>>
        pent_ember == <<pentecost + 3, pentecost + 5, pentecost + 6>>
        sept1      == unwrap(from_ymd_opt(y, 9, 1))
        days_to_sun == 7 - num_days_from_sunday(sept1)
        first_sunday_sept == sept1 + days_to_sun
        third_sunday_sept == first_sunday_sept + 14
        sept_ember == <<third_sunday_sept + 3, third_sunday_sept + 5,
                        third_sunday_sept + 6>>
        advent_3   == advent_1_date + 14
        advent_ember == <<advent_3 + 3, advent_3 + 5, advent_3 + 6>>
    IN  lent_ember \o pent_ember \o sept_ember \o advent_ember

\* ember_days of moveable_feasts: the four triads, in the order they are
\* extended into the vector
ember_days(y, ash_wednesday, pentecost, advent_1_date) ==
    LET first_sunday_of_lent == ash_wednesday + 4
        lent_ember == <<first_sunday_of_lent + 3, first_sunday_of_lent + 5,
                        first_sunday_of_lent + 6>>
        pent_ember == <<pentecost + 3, pentecost + 5, pentecost + 6>>
        sept1      == unwrap(from_ymd_opt(y, 9, 1))
        days_to_sun == (7 - num_days_from_sunday(sept1)) % 7
        first_sunday_sept == sept1 + days_to_sun
        third_sunday_sept == first_sunday_sept + 14
        sept_ember == <<third_sunday_sept + 3, third_sunday_sept + 5,
                        third_sunday_sept + 6>>
        advent_3   == advent_1_date + 14
        advent_ember == <<advent_3 + 3, advent_3 + 5, advent_3 + 6>>
    IN  lent_ember \o pent_ember \o sept_ember \o advent_ember

\* rogation_days ending two days before the Ascension
rogation_days_one_day_early(ascension) ==
    <<ascension - 4, ascension - 3, ascension - 2>>

\* rogation_days of moveable_feasts
rogation_days(ascension) ==
    <<ascension - 3, ascension - 2, ascension - 1>>

\* moveable_feasts with Ash Wednesday 47 days before Easter
moveable_feasts_ash_wednesday_47(y) ==
    LET easter_date    == easter(y)
        ash_wednesday  == easter_date - 47
        ascension      == easter_date + 39
        pentecost      == easter_date + 49
        corpus_christi == easter_date + 60
    IN  [easter          |-> easter_date,
         septuagesima    |-> easter_date - 63,
         ash_wednesday   |-> ash_wednesday,
         passion_sunday  |-> easter_date - 14,
         palm_sunday     |-> easter_date - 7,
         holy_thursday   |-> easter_date - 3,
         good_friday     |-> easter_date - 2,
         holy_saturday   |-> easter_date - 1,
         ascension       |-> ascension,
         pentecost       |-> pentecost,
         corpus_christi  |-> corpus_christi,
         sacred_heart    |-> corpus_christi + 8,
         christ_the_king |-> christ_the_king(y),
         advent_1        |-> advent_1(y),
         ember_days      |-> ember_days(y, ash_wednesday, pentecost, advent_1(y)),
         rogation_days   |-> rogation_days(ascension)]

\* MoveableFeasts of a year
moveable_feasts(y) ==
    LET easter_date    == easter(y)
        ash_wednesday  == easter_date - 46
        ascension      == easter_date + 39
        pentecost      == easter_date + 49
        corpus_christi == easter_date + 60
    IN  [easter          |-> easter_date,
         septuagesima    |-> easter_date - 63,
         ash_wednesday   |-> ash_wednesday,
         passion_sunday  |-> easter_date - 14,
         palm_sunday     |-> easter_date - 7,
         holy_thursday   |-> easter_date - 3,
         good_friday     |-> easter_date - 2,
         holy_saturday   |-> easter_date - 1,
         ascension       |-> ascension,
         pentecost       |-> pentecost,
         corpus_christi  |-> corpus_christi,
         sacred_heart    |-> corpus_christi + 8,
         christ_the_king |-> christ_the_king(y),
         advent_1        |-> advent_1(y),
         ember_days      |-> ember_days(y, ash_wednesday, pentecost, advent_1(y)),
         rogation_days   |-> rogation_days(ascension)]

(* ------------------------------- types --------------------------------- *)

\* precedence_value following the declaration order of the enum
precedence_value_declared_order(rank) ==
    CASE rank = "ClassI"          -> 1
      [] rank = "ClassII"         -> 2
      [] rank = "ClassIII"        -> 3
      [] rank = "ClassIV"         -> 4
      [] rank = "Feria"           -> 5
      [] rank = "FeriaPrivileged" -> 6

\* CelebrationRank::precedence_value
precedence_value(rank) ==
    CASE rank = "ClassI"          -> 1
      [] rank = "ClassII"         -> 2
      [] rank = "ClassIII"        -> 3
      [] rank = "FeriaPrivileged" -> 4
      [] rank = "ClassIV"         -> 5
      [] rank = "Feria"           -> 6

\* Celebration::new (titles left out)
Celebration(id, rank, category, color, precedence) ==
    [id |-> id, rank |-> rank, category |-> category, color |-> color,
     precedence |-> precedence]

season_id(s) ==
    CASE s = "Advent"         -> "advent"
      [] s = "Christmas"      -> "christmas"
      [] s = "AfterEpiphany"  -> "after-epiphany"
      [] s = "Septuagesima"   -> "septuagesima"
      [] s = "Lent"           -> "lent"
      [] s = "Passiontide"    -> "passiontide"
      [] s = "HolyWeek"       -> "holy-week"
      [] s = "Easter"         -> "easter"
      [] s = "Ascensiontide"  -> "ascensiontide"
      [] s = "AfterPentecost" -> "after-pentecost"

\* format!("{:?}", day).to_lowercase()
day_name_lowercase(w) ==
    CASE w = "Sun" -> "sun" [] w = "Mon" -> "mon" [] w = "Tue" -> "tue"
      [] w = "Wed" -> "wed" [] w = "Thu" -> "thu" [] w = "Fri" -> "fri"
      [] w = "Sat" -> "sat"

\* Celebration::feria
feria(season, week, day) ==
    LET crp == CASE season = "Advent" -> <<"Violet", "FeriaPrivileged", 8>>
                 [] season \in {"Lent", "Passiontide"} -> <<"Violet", "FeriaPrivileged", 8>>
                 [] season = "HolyWeek" -> <<"Violet", "ClassI", 3>>
                 [] season \in {"Christmas", "AfterEpiphany"} -> <<"White", "Feria", 11>>
                 [] season = "Septuagesima" -> <<"Violet", "Feria", 11>>
                 [] season \in {"Easter", "Ascensiontide"} -> <<"White", "Feria", 11>>
                 [] season = "AfterPentecost" -> <<"Green", "Feria", 11>>
    IN  Celebration(<<"feria-", season_id(season), "-week-", week, "-", day_name_lowercase(day)>>,
                    crp[2], "Feria", crp[1], crp[3])

\* sunday with Rose on the second Sunday of Advent instead of the third
sunday_rose_on_advent_2(season, week) ==
    LET crp == CASE season = "Advent" ->
                      (IF week = 1 THEN <<"Violet", "ClassI", 2>>
                       ELSE IF week = 2 THEN <<"Rose", "ClassI", 6>>
                       ELSE <<"Violet", "ClassI", 6>>)
                 [] season \in {"Christmas", "AfterEpiphany"} -> <<"White", "ClassII", 6>>
                 [] season = "Septuagesima" -> <<"Violet", "ClassII", 6>>
                 [] season = "Lent" ->
                      (IF week = 1 THEN <<"Violet", "ClassI", 2>>
                       ELSE IF week = 4 THEN <<"Rose", "ClassI", 6>>
                       ELSE <<"Violet", "ClassI", 6>>)
                 [] season = "Passiontide" -> <<"Violet", "ClassI", 2>>
                 [] season = "HolyWeek" -> <<"Violet", "ClassI", 2>>
                 [] season = "Easter" ->
                      (IF week = 1 THEN <<"White", "ClassI", 1>>
                       ELSE <<"White", "ClassII", 6>>)
                 [] season = "Ascensiontide" -> <<"White", "ClassII", 6>>
                 [] season = "AfterPentecost" -> <<"Green", "ClassII", 6>>
    IN  Celebration(<<"sunday-", season_id(season), "-", week>>,
                    crp[2], "Sunday", crp[1], crp[3])

\* Celebration::sunday
sunday(season, week) ==
    LET crp == CASE season = "Advent" ->
                      (IF week = 1 THEN <<"Violet", "ClassI", 2>>
                       ELSE IF week = 3 THEN <<"Rose", "ClassI", 6>>
                       ELSE <<"Violet", "ClassI", 6>>)
                 [] season \in {"Christmas", "AfterEpiphany"} -> <<"White", "ClassII", 6>>
                 [] season = "Septuagesima" -> <<"Violet", "ClassII", 6>>
                 [] season = "Lent" ->
                      (IF week = 1 THEN <<"Violet", "ClassI", 2>>
                       ELSE IF week = 4 THEN <<"Rose", "ClassI", 6>>
                       ELSE <<"Violet", "ClassI", 6>>)
                 [] season = "Passiontide" -> <<"Violet", "ClassI", 2>>
                 [] season = "HolyWeek" -> <<"Violet", "ClassI", 2>>
                 [] season = "Easter" ->
                      (IF week = 1 THEN <<"White", "ClassI", 1>>
                       ELSE <<"White", "ClassII", 6>>)
                 [] season = "Ascensiontide" -> <<"White", "ClassII", 6>>
                 [] season = "AfterPentecost" -> <<"Green", "ClassII", 6>>
    IN  Celebration(<<"sunday-", season_id(season), "-", week>>,
                    crp[2], "Sunday", crp[1], crp[3])

(* ------------------------------ temporal ------------------------------- *)

Contains(seq, x) == \E i \in 1..Len(seq) : seq[i] = x

NumSpecialPredicates == 21

\* the i-th `if` of classify_special, in source order
special_predicate(i, d, m) ==
    CASE i = 1  -> d = m.easter
      [] i = 2  -> d > m.easter /\ d < m.easter + 7
      [] i = 3  -> d = m.easter + 7
      [] i = 4  -> d = m.ash_wednesday
      [] i = 5  -> d = m.palm_sunday
      [] i = 6  -> d = m.holy_thursday
      [] i = 7  -> d = m.good_friday
      [] i = 8  -> d = m.holy_saturday
      [] i = 9  -> d = m.ascension
      [] i = 10 -> d = m.pentecost
      [] i = 11 -> d > m.pentecost /\ d < m.pentecost + 7
      [] i = 12 -> d = m.corpus_christi
      [] i = 13 -> d = m.sacred_heart
      [] i = 14 -> d = m.christ_the_king
      [] i = 15 -> Contains(m.ember_days, d)
      [] i = 16 -> Contains(m.rogation_days, d)
      [] i = 17 -> /\ weekday(d) = "Sun"
                   /\ d >= m.pentecost + 7
                   /\ d < m.advent_1
                   /\ d + 7 >= m.advent_1
      [] i = 18 -> d = m.septuagesima
      [] i = 19 -> d = m.septuagesima + 7
      [] i = 20 -> d = m.septuagesima + 14
      [] i = 21 -> d = m.passion_sunday

\* the Celebration returned by the i-th `if` of classify_special
special_celebration(i, d, m) ==
    CASE i = 1  -> Celebration(<<"easter-sunday">>, "ClassI", "Solemnity", "White", 1)
      [] i = 2  -> Celebration(<<"easter-octave-", d - m.easter>>, "ClassI", "WithinOctave", "White", 1)
      [] i = 3  -> Celebration(<<"low-sunday">>, "ClassI", "OctaveDay", "White", 1)
      [] i = 4  -> Celebration(<<"ash-wednesday">>, "ClassI", "Feria", "Violet", 3)
      [] i = 5  -> Celebration(<<"palm-sunday">>, "ClassI", "Sunday", "Violet", 2)
      [] i = 6  -> Celebration(<<"holy-thursday">>, "ClassI", "Solemnity", "White", 1)
      [] i = 7  -> Celebration(<<"good-friday">>, "ClassI", "Solemnity", "Black", 1)
      [] i = 8  -> Celebration(<<"holy-saturday">>, "ClassI", "Solemnity", "Violet", 1)
      [] i = 9  -> Celebration(<<"ascension">>, "ClassI", "FeastOfLord", "White", 1)
      [] i = 10 -> Celebration(<<"pentecost">>, "ClassI", "Solemnity", "Red", 1)
      [] i = 11 -> Celebration(<<"pentecost-octave-", d - m.pentecost>>, "ClassI", "WithinOctave", "Red", 1)
      [] i = 12 -> Celebration(<<"corpus-christi">>, "ClassI", "FeastOfLord", "White", 1)
      [] i = 13 -> Celebration(<<"sacred-heart">>, "ClassI", "FeastOfLord", "White", 4)
      [] i = 14 -> Celebration(<<"christ-the-king">>, "ClassI", "FeastOfLord", "White", 4)
      [] i = 15 -> Celebration(<<"ember-", month_of(d), "-", day_of(d)>>, "FeriaPrivileged", "EmberDay", "Violet", 8)
      [] i = 16 -> Celebration(<<"rogation-", month_of(d), "-", day_of(d)>>, "ClassIV", "RogationDay", "Violet", 11)
      [] i = 17 -> Celebration(<<"last-sunday-after-pentecost">>, "ClassI", "Sunday", "Green", 2)
      [] i = 18 -> sunday("Septuagesima", 1)
      [] i = 19 -> sunday("Septuagesima", 2)
      [] i = 20 -> sunday("Septuagesima", 3)
      [] i = 21 -> sunday("Passiontide", 1)

\* the `if`s of classify_special whose condition holds for the date
special_matches(d, m) ==
    {i \in 1..NumSpecialPredicates : special_predicate(i, d, m)}

Min(S) == CHOOSE x \in S : \A z \in S : x <= z

\* classify_special: the first `if` that matches returns
classify_special(d, y, m) ==
    LET ms == special_matches(d, m)
    IN  IF ms = {} THEN None ELSE Some(special_celebration(Min(ms), d, m))

NumSeasonBranches == 10

\* season_condition with Ascensiontide ending before Pentecost
season_condition_open_ascensiontide(i, d, y, m) ==
    LET epiphany  == unwrap(from_ymd_opt(y, 1, 6))
        christmas == unwrap(from_ymd_opt(y, 12, 25))
    IN  CASE i = 1  -> d < epiphany
          [] i = 2  -> d >= epiphany /\ d < m.septuagesima
          [] i = 3  -> d >= m.septuagesima /\ d < m.ash_wednesday
          [] i = 4  -> d >= m.ash_wednesday /\ d < m.passion_sunday
          [] i = 5  -> d >= m.passion_sunday /\ d < m.palm_sunday
          [] i = 6  -> d >= m.palm_sunday /\ d < m.easter
          [] i = 7  -> d >= m.easter /\ d < m.ascension
          [] i = 8  -> d >= m.ascension /\ d < m.pentecost
          [] i = 9  -> d > m.pentecost /\ d < m.advent_1
          [] i = 10 -> d >= m.advent_1 /\ d < christmas

\* condition of the i-th branch of the if / else-if chain of classify_date
season_condition(i, d, y, m) ==
    LET epiphany  == unwrap(from_ymd_opt(y, 1, 6))
        christmas == unwrap(from_ymd_opt(y, 12, 25))
    IN  CASE i = 1  -> d < epiphany
          [] i = 2  -> d >= epiphany /\ d < m.septuagesima
          [] i = 3  -> d >= m.septuagesima /\ d < m.ash_wednesday
          [] i = 4  -> d >= m.ash_wednesday /\ d < m.passion_sunday
          [] i = 5  -> d >= m.passion_sunday /\ d < m.palm_sunday
          [] i = 6  -> d >= m.palm_sunday /\ d < m.easter
          [] i = 7  -> d >= m.easter /\ d < m.ascension
          [] i = 8  -> d >= m.ascension /\ d <= m.pentecost
          [] i = 9  -> d > m.pentecost /\ d < m.advent_1
          [] i = 10 -> d >= m.advent_1 /\ d < christmas

\* season_entry counting the weeks of Lent from Ash Wednesday
season_entry_lent_from_ash_wednesday(i, d, y, m) ==
    LET epiphany == unwrap(from_ymd_opt(y, 1, 6))
    IN  CASE i = 1  -> [season |-> "Christmas", week |-> 1]
          [] i = 2  -> [season |-> "AfterEpiphany", week |-> div(d - epiphany, 7) + 1]
          [] i = 3  -> [season |-> "Septuagesima", week |-> div(d - m.septuagesima, 7) + 1]
          [] i = 4  -> [season |-> "Lent", week |-> div(d - m.ash_wednesday, 7) + 1]
          [] i = 5  -> [season |-> "Passiontide", week |-> 1]
          [] i = 6  -> [season |-> "HolyWeek", week |-> 1]
          [] i = 7  -> [season |-> "Easter", week |-> div(d - m.easter, 7) + 1]
          [] i = 8  -> [season |-> "Ascensiontide", week |-> 1]
          [] i = 9  -> [season |-> "AfterPentecost", week |-> div(d - m.pentecost, 7) + 1]
          [] i = 10 -> [season |-> "Advent", week |-> div(d - m.advent_1, 7) + 1]
          [] OTHER  -> [season |-> "Christmas", week |-> 1]

\* TemporalEntry built by the i-th branch (11 is the final else)
season_entry(i, d, y, m) ==
    LET epiphany == unwrap(from_ymd_opt(y, 1, 6))
        first_sunday_of_lent == m.ash_wednesday + 4
    IN  CASE i = 1  -> [season |-> "Christmas", week |-> 1]
          [] i = 2  -> [season |-> "AfterEpiphany", week |-> div(d - epiphany, 7) + 1]
          [] i = 3  -> [season |-> "Septuagesima", week |-> div(d - m.septuagesima, 7) + 1]
          [] i = 4  -> IF d < first_sunday_of_lent
                       THEN [season |-> "Lent", week |-> 0]
                       ELSE [season |-> "Lent", week |-> div(d - first_sunday_of_lent, 7) + 1]
          [] i = 5  -> [season |-> "Passiontide", week |-> 1]
          [] i = 6  -> [season |-> "HolyWeek", week |-> 1]
          [] i = 7  -> [season |-> "Easter", week |-> div(d - m.easter, 7) + 1]
          [] i = 8  -> [season |-> "Ascensiontide", week |-> 1]
          [] i = 9  -> [season |-> "AfterPentecost", week |-> div(d - m.pentecost, 7) + 1]
          [] i = 10 -> [season |-> "Advent", week |-> div(d - m.advent_1, 7) + 1]
          [] OTHER  -> [season |-> "Christmas", week |-> 1]

\* index of the branch of classify_date that the date takes
season_branch(d, y, m) ==
    LET bs == {i \in 1..NumSeasonBranches : season_condition(i, d, y, m)}
    IN  IF bs = {} THEN NumSeasonBranches + 1 ELSE Min(bs)

\* classify_date reading the feasts of the previous year
classify_date_previous_year_feasts(d, y, m, prev_mf) ==
    [entry   |-> season_entry(season_branch(d, y, prev_mf), d, y, prev_mf),
     special |-> classify_special(d, y, m)]

\* classify_date: (TemporalEntry, Option<Celebration>)
classify_date(d, y, m, prev_mf) ==
    [entry   |-> season_entry(season_branch(d, y, m), d, y, m),
     special |-> classify_special(d, y, m)]

(* ------------------------------ sanctoral ------------------------------ *)

\* fixed: a FixedFeast
fixed(month, day, id, rank, category, color, precedence) ==
    [month |-> month, day |-> day,
     celebration |-> Celebration(id, rank, category, color, precedence)]

\* major_feasts: the table of fixed feasts, in source order
major_feasts ==
    <<
        fixed(1, 1, <<"circumcision">>, "ClassI", "FeastOfLord", "White", 4),
        fixed(1, 6, <<"epiphany">>, "ClassI", "FeastOfLord", "White", 4),
        fixed(1, 25, <<"conversion-of-st-paul">>, "ClassIII", "Feast", "White", 9),
        fixed(1, 28, <<"st-thomas-aquinas">>, "ClassIII", "Feast", "White", 9),
        fixed(2, 2, <<"purification-bvm">>, "ClassII", "FeastOfLord", "White", 5),
        fixed(2, 22, <<"chair-of-st-peter">>, "ClassII", "Feast", "White", 7),
        fixed(2, 24, <<"st-matthias">>, "ClassII", "Feast", "Red", 7),
        fixed(3, 7, <<"st-perpetua-felicity">>, "ClassIII", "Feast", "Red", 9),
        fixed(3, 12, <<"st-gregory-great">>, "ClassIII", "Feast", "White", 9),
        fixed(3, 17, <<"st-patrick">>, "ClassIII", "Feast", "White", 9),
        fixed(3, 19, <<"st-joseph">>, "ClassI", "Solemnity", "White", 4),
        fixed(3, 25, <<"annunciation">>, "ClassI", "FeastOfLord", "White", 4),
        fixed(4, 2, <<"st-francis-of-paola">>, "ClassIII", "Feast", "White", 9),
        fixed(4, 25, <<"st-mark">>, "ClassII", "Feast", "Red", 7),
        fixed(5, 1, <<"st-joseph-worker">>, "ClassI", "Solemnity", "White", 4),
        fixed(5, 3, <<"finding-holy-cross">>, "ClassIII", "Feast", "Red", 9),
        fixed(5, 11, <<"ss-philip-james">>, "ClassII", "Feast", "Red", 7),
        fixed(5, 31, <<"queenship-of-mary">>, "ClassII", "Feast", "White", 7),
        fixed(6, 24, <<"nativity-of-st-john-baptist">>, "ClassI", "Solemnity", "White", 4),
        fixed(6, 29, <<"ss-peter-paul">>, "ClassI", "Solemnity", "Red", 4),
        fixed(7, 2, <<"visitation-bvm">>, "ClassII", "Feast", "White", 7),
        fixed(7, 25, <<"st-james-greater">>, "ClassII", "Feast", "Red", 7),
        fixed(7, 26, <<"st-anne">>, "ClassII", "Feast", "White", 7),
        fixed(8, 6, <<"transfiguration">>, "ClassII", "FeastOfLord", "White", 5),
        fixed(8, 10, <<"st-lawrence">>, "ClassII", "Feast", "Red", 7),
        fixed(8, 15, <<"assumption-bvm">>, "ClassI", "Solemnity", "White", 4),
        fixed(8, 22, <<"immaculate-heart-of-mary">>, "ClassII", "Feast", "White", 7),
        fixed(8, 24, <<"st-bartholomew">>, "ClassII", "Feast", "Red", 7),
        fixed(8, 28, <<"st-augustine">>, "ClassIII", "Feast", "White", 9),
        fixed(8, 29, <<"beheading-john-baptist">>, "ClassIII", "Feast", "Red", 9),
        fixed(9, 8, <<"nativity-bvm">>, "ClassII", "Feast", "White", 7),
        fixed(9, 14, <<"exaltation-holy-cross">>, "ClassII", "FeastOfLord", "Red", 5),
        fixed(9, 15, <<"seven-sorrows-bvm">>, "ClassII", "Feast", "White", 7),
        fixed(9, 21, <<"st-matthew">>, "ClassII", "Feast", "Red", 7),
        fixed(9, 29, <<"st-michael">>, "ClassI", "Solemnity", "White", 4),
        fixed(10, 7, <<"holy-rosary">>, "ClassII", "Feast", "White", 7),
        fixed(10, 11, <<"divine-motherhood-bvm">>, "ClassII", "Feast", "White", 7),
        fixed(10, 18, <<"st-luke">>, "ClassII", "Feast", "Red", 7),
        fixed(10, 28, <<"ss-simon-jude">>, "ClassII", "Feast", "Red", 7),
        fixed(11, 1, <<"all-saints">>, "ClassI", "Solemnity", "White", 4),
        fixed(11, 2, <<"all-souls">>, "ClassI", "Solemnity", "Black", 4),
        fixed(11, 9, <<"dedication-lateran">>, "ClassII", "Feast", "White", 7),
        fixed(11, 21, <<"presentation-bvm">>, "ClassIII", "Feast", "White", 9),
        fixed(11, 30, <<"st-andrew">>, "ClassII", "Feast", "Red", 7),
        fixed(11, 11, <<"st-martin-of-tours">>, "ClassIII", "Feast", "White", 9),
        fixed(11, 22, <<"st-cecilia">>, "ClassIII", "Feast", "Red", 9),
        fixed(11, 25, <<"st-catherine-of-alexandria">>, "ClassIII", "Feast", "Red", 9),
        fixed(12, 8, <<"immaculate-conception">>, "ClassI", "Solemnity", "White", 4),
        fixed(12, 21, <<"st-thomas-apostle">>, "ClassII", "Feast", "Red", 7),
        fixed(12, 25, <<"christmas">>, "ClassI", "Solemnity", "White", 1),
        fixed(12, 26, <<"st-stephen">>, "ClassII", "Feast", "Red", 5),
        fixed(12, 27, <<"st-john-evangelist">>, "ClassII", "Feast", "White", 5),
        fixed(12, 28, <<"holy-innocents">>, "ClassII", "Feast", "Red", 5),
        fixed(12, 31, <<"st-sylvester">>, "ClassIII", "Feast", "White", 9)
    >>

\* BTreeMap lookup with the empty default
MapGet(map, k) == IF k \in DOMAIN map THEN map[k] ELSE << >>

\* map.entry(k).or_default().push(c)
MapPush(map, k, c) == (k :> Append(MapGet(map, k), c)) @@ map

\* BTreeMap::insert
MapInsert(map, k, v) == (k :> v) @@ map

EmptyMap == << >>

RECURSIVE push_fixed_feasts(_, _, _, _)
\* the loop over major_feasts of build_sanctoral_cycle, from index i on
\* (the test on DOMAIN pushed only makes the map be computed before the next
\* iteration; both branches continue with the same map)
push_fixed_feasts(feasts, i, y, map) ==
    IF i > Len(feasts) THEN map
    ELSE LET o == from_ymd_opt(y, feasts[i].month, feasts[i].day)
             pushed == IF o = None THEN map
                       ELSE MapPush(map, unwrap(o), feasts[i].celebration)
         IN  IF DOMAIN pushed = {} THEN push_fixed_feasts(feasts, i + 1, y, EmptyMap)
             ELSE push_fixed_feasts(feasts, i + 1, y, pushed)

RECURSIVE first_sunday_from(_, _)
\* the while loop shared by find_sunday_between and the Holy Family search
first_sunday_from(d, end) ==
    IF d > end THEN None
    ELSE IF weekday(d) = "Sun" THEN Some(d)
    ELSE first_sunday_from(d + 1, end)

\* find_sunday_between with `while d < end`
find_sunday_between_exclusive(y, m1, d1, m2, d2) ==
    LET start == from_ymd_opt(y, m1, d1)
        end   == from_ymd_opt(y, m2, d2)
    IN  IF start = None \/ end = None THEN None
        ELSE first_sunday_from(unwrap(start), unwrap(end) - 1)

\* find_sunday_between
find_sunday_between(y, m1, d1, m2, d2) ==
    LET start == from_ymd_opt(y, m1, d1)
        end   == from_ymd_opt(y, m2, d2)
    IN  IF start = None \/ end = None THEN None
        ELSE first_sunday_from(unwrap(start), unwrap(end))

\* Option::unwrap_or
unwrap_or(o, dflt) == IF o = None THEN dflt ELSE unwrap(o)

\* holy_name_date searching from January 1
holy_name_date_from_jan1(y) ==
    unwrap_or(find_sunday_between(y, 1, 1, 1, 5), unwrap(from_ymd_opt(y, 1, 2)))

\* date on which build_sanctoral_cycle(y) places Holy Name
holy_name_date(y) ==
    unwrap_or(find_sunday_between(y, 1, 2, 1, 5), unwrap(from_ymd_opt(y, 1, 2)))

\* holy_family_date searching the octave of the Christmas of year y
holy_family_date_of_this_christmas(y) ==
    LET dec25 == unwrap(from_ymd_opt(y, 12, 25))
    IN  IF weekday(dec25) = "Sun"
        THEN unwrap(from_ymd_opt(y, 12, 30))
        ELSE unwrap_or(first_sunday_from(unwrap(from_ymd_opt(y, 12, 26)),
                                         unwrap(from_ymd_opt(y + 1, 1, 1))),
                       unwrap(from_ymd_opt(y, 12, 30)))

\* date to which build_sanctoral_cycle(y) resolves Holy Family
holy_family_date(y) ==
    LET dec25_prev == unwrap(from_ymd_opt(y - 1, 12, 25))
    IN  IF weekday(dec25_prev) = "Sun"
        THEN unwrap(from_ymd_opt(y - 1, 12, 30))
        ELSE unwrap_or(first_sunday_from(unwrap(from_ymd_opt(y - 1, 12, 26)),
                                         unwrap(from_ymd_opt(y, 1, 1))),
                       unwrap(from_ymd_opt(y - 1, 12, 30)))

\* build_sanctoral_cycle
build_sanctoral_cycle(y) ==
    LET m1 == push_fixed_feasts(major_feasts, 1, y, EmptyMap)
        m2 == MapPush(m1, holy_name_date(y),
                  Celebration(<<"holy-name-of-jesus">>, "ClassII", "FeastOfLord", "White", 5))
        hf == holy_family_date(y)
    IN  IF year_of(hf) = y
        THEN MapPush(m2, hf,
                 Celebration(<<"holy-family">>, "ClassI", "FeastOfLord", "White", 4))
        ELSE m2

(* ------------------------------ precedence ----------------------------- *)

\* sort_less that also holds for equal keys, which makes the sort unstable
sort_less_or_equal(a, b) ==
    \/ a.precedence < b.precedence
    \/ /\ a.precedence = b.precedence
       /\ precedence_value(a.rank) <= precedence_value(b.rank)

\* the comparator of all.sort_by gives Ordering::Less
sort_less(a, b) ==
    \/ a.precedence < b.precedence
    \/ /\ a.precedence = b.precedence
       /\ precedence_value(a.rank) < precedence_value(b.rank)

RECURSIVE insert_sorted(_, _, _)
\* x goes behind every element of the sorted prefix that is not greater
insert_sorted(sorted, x, j) ==
    IF j >= 1 /\ sort_less(x, sorted[j])
    THEN insert_sorted(sorted, x, j - 1)
    ELSE SubSeq(sorted, 1, j) \o <<x>> \o SubSeq(sorted, j + 1, Len(sorted))

RECURSIVE sort_from(_, _, _)
\* slice::sort_by: a stable sort
sort_from(all, i, sorted) ==
    IF i > Len(all) THEN sorted
    ELSE sort_from(all, i + 1, insert_sorted(sorted, all[i], Len(sorted)))

\* sort_by leaving the vector in insertion order, the temporal one first
sort_by_insertion_order(all) == all

sort_by(all) == sort_from(all, 1, << >>)

\* is_commemorated with the ClassIV arm left empty
is_commemorated_without_class_iv(rank) ==
    CASE rank = "ClassI" -> TRUE
      [] rank \in {"ClassII", "ClassIII", "FeriaPrivileged"} -> TRUE
      [] rank = "ClassIV" -> FALSE
      [] rank = "Feria" -> FALSE

\* the match on c.rank in the commemoration loop pushes c
is_commemorated(rank) ==
    CASE rank = "ClassI" -> TRUE
      [] rank \in {"ClassII", "ClassIII", "FeriaPrivileged"} -> TRUE
      [] rank = "ClassIV" -> TRUE
      [] rank = "Feria" -> FALSE

\* IsCommemorated leaving out an impeded feast of Class I, as if transferred
IsCommemorated_below_class_i(c) == c.rank # "ClassI" /\ is_commemorated(c.rank)

\* the body of the commemoration loop, applied to one loser
IsCommemorated(c) == is_commemorated(c.rank)

\* resolve_precedence
resolve_precedence(temporal_c, sanctoral_cs) ==
    LET all == sort_by(<<temporal_c>> \o sanctoral_cs)
    IN  [winner |-> all[1],
         commemorations |-> SelectSeq(Tail(all), IsCommemorated)]

(* ------------------------------ calendar ------------------------------- *)

jan1(y)  == unwrap(from_ymd_opt(y, 1, 1))
dec31(y) == unwrap(from_ymd_opt(y, 12, 31))

\* temporal_loop_continues with `<` for `<=`
temporal_loop_continues_exclusive(d, y) == d < dec31(y)

\* `while date <= dec31` of build_temporal_cycle
temporal_loop_continues(d, y) == d <= dec31(y)

\* temporal_celeb without the Sunday arm
temporal_celeb_without_sunday(d, entry, special) ==
    IF special # None THEN unwrap(special)
    ELSE feria(entry.season, entry.week, weekday(d))

\* the temporal celebration Calendar::new hands to the resolver
temporal_celeb(d, entry, special) ==
    IF special # None THEN unwrap(special)
    ELSE IF weekday(d) = "Sun" THEN sunday(entry.season, entry.week)
    ELSE feria(entry.season, entry.week, weekday(d))

\* resolver_arguments testing the weekday before the special celebration
resolver_arguments_sunday_first(d, entry, special, sanct) ==
    [temporal_celebration |->
         IF weekday(d) = "Sun" THEN sunday(entry.season, entry.week)
         ELSE IF special # None THEN unwrap(special)
         ELSE feria(entry.season, entry.week, weekday(d)),
     sanctoral_celebrations |-> MapGet(sanct, d)]

\* the two arguments of the call of resolve_precedence in Calendar::new:
\* temporal_celeb and sanctoral.get(date).cloned().unwrap_or_default()
resolver_arguments(d, entry, special, sanct) ==
    [temporal_celebration |-> temporal_celeb(d, entry, special),
     sanctoral_celebrations |-> MapGet(sanct, d)]

\* liturgical_day taking the color of the temporal celebration
liturgical_day_temporal_color(d, entry, special, sanct) ==
    LET args == resolver_arguments(d, entry, special, sanct)
        r == resolve_precedence(args.temporal_celebration, args.sanctoral_celebrations)
    IN  [date |-> d, season |-> entry.season, week |-> entry.week,
         day_of_week |-> weekday(d),
         celebration |-> r.winner, commemorations |-> r.commemorations,
         color |-> args.temporal_celebration.color]

\* body of the `for` loop of Calendar::new: the LiturgicalDay of a date
liturgical_day(d, entry, special, sanct) ==
    LET args == resolver_arguments(d, entry, special, sanct)
        r == resolve_precedence(args.temporal_celebration, args.sanctoral_celebrations)
    IN  [date |-> d, season |-> entry.season, week |-> entry.week,
         day_of_week |-> weekday(d),
         celebration |-> r.winner, commemorations |-> r.commemorations,
         color |-> r.winner.color]

\* BTreeMap iteration: the key that follows k, if any
next_key(map, k) ==
    IF \E x \in DOMAIN map : x > k
    THEN Some(CHOOSE x \in DOMAIN map :
                 x > k /\ \A z \in DOMAIN map : z > k => x <= z)
    ELSE None

\* BTreeMap iteration: the first key, if any
first_key(map) ==
    IF DOMAIN map = {} THEN None
    ELSE Some(CHOOSE x \in DOMAIN map : \A z \in DOMAIN map : x <= z)

\* Calendar::get
Calendar_get(map, d) == IF d \in DOMAIN map THEN Some(map[d]) ELSE None

\* Calendar::get is queried this far around both ends of the target year
GetMargin == 2

GetDates(y) ==
    IF pc = "done"
    THEN ((jan1(y) - GetMargin)..(jan1(y) + GetMargin))
             \cup ((dec31(y) - GetMargin)..(dec31(y) + GetMargin))
    ELSE {}

\* Calendar::new as a function of the year: the days map it returns.  The
\* values the code binds with `let` are bound here as elements of singleton
\* sets, which only makes their evaluation happen once.
Calendar_new(y) ==
    CHOOSE built \in
        { [d \in { x \in jan1(y)..dec31(y) + 1 : temporal_loop_continues(x, y) } |->
              CHOOSE day \in { liturgical_day(d, c.entry, c.special, sanct) :
                               c \in {classify_date(d, y, m, prev_mf)} } : TRUE]
          : m \in {moveable_feasts(y)},
            prev_mf \in {moveable_feasts(y - 1)},
            sanct \in {build_sanctoral_cycle(y)} } : TRUE

\* days_new handing out the map of the previous call
days_new_kept_across_calls == days

\* `let mut days = BTreeMap::new()` of Calendar::new: a map local to the call
days_new == EmptyMap

\* no call of Calendar::new has returned
NoBuilds ==
    /\ calendars = EmptyMap
    /\ builds = 0

\* the HTTP layer is not running
NoApi ==
    /\ cache = EmptyMap
    /\ mutex = [locked_by |-> None, poisoned |-> FALSE]
    /\ threads = << >>
    /\ executed = EmptyMap

Init ==
    /\ pc = "idle"
    /\ year = 0
    /\ mf = None
    /\ date = 0
    /\ temporal = EmptyMap
    /\ sanctoral = EmptyMap
    /\ days = EmptyMap
    /\ got = None
    /\ temporal_celebration = None
    /\ sanctoral_celebrations = << >>
    /\ ret = None
    /\ NoBuilds
    /\ NoApi

\* Calendar::new(y) up to the start of the loop of build_temporal_cycle,
\* whose map is new
CalendarNew(y) ==
    /\ pc = "idle"
    /\ year' = y
    /\ mf' = moveable_feasts(y)
    /\ date' = jan1(y)
    /\ pc' = "temporal"
    /\ temporal' = EmptyMap
    /\ UNCHANGED <<sanctoral, days, got,
                   temporal_celebration, sanctoral_celebrations, ret>>
    /\ UNCHANGED <<build_vars, api_vars>>

\* one iteration of the loop of build_temporal_cycle
TemporalStep ==
    /\ pc = "temporal"
    /\ temporal_loop_continues(date, year)
    /\ temporal' = MapInsert(temporal, date,
                             classify_date(date, year, mf, moveable_feasts(year - 1)))
    /\ date' = date + 1
    /\ UNCHANGED <<pc, year, mf, sanctoral, days, got,
                   temporal_celebration, sanctoral_celebrations, ret>>
    /\ UNCHANGED <<build_vars, api_vars>>

\* build_temporal_cycle returns; build_sanctoral_cycle; the `for` loop starts
\* on a new days map
TemporalDone ==
    /\ pc = "temporal"
    /\ ~temporal_loop_continues(date, year)
    /\ sanctoral' = build_sanctoral_cycle(year)
    /\ IF first_key(temporal) = None
       THEN pc' = "done" /\ date' = date
       ELSE pc' = "resolve" /\ date' = unwrap(first_key(temporal))
    /\ days' = days_new
    /\ UNCHANGED <<year, mf, temporal, got,
                   temporal_celebration, sanctoral_celebrations, ret>>
    /\ UNCHANGED <<build_vars, api_vars>>

\* one iteration of the `for` loop of Calendar::new
ResolveStep ==
    /\ pc = "resolve"
    /\ days' = MapInsert(days, date,
                   liturgical_day(date, temporal[date].entry,
                                  temporal[date].special, sanctoral))
    /\ IF next_key(temporal, date) = None
       THEN pc' = "done" /\ date' = date
       ELSE pc' = "resolve" /\ date' = unwrap(next_key(temporal, date))
    /\ LET args == resolver_arguments(date, temporal[date].entry,
                                      temporal[date].special, sanctoral)
       IN  /\ temporal_celebration' = args.temporal_celebration
           /\ sanctoral_celebrations' = args.sanctoral_celebrations
    /\ UNCHANGED <<year, mf, temporal, sanctoral, got, ret>>
    /\ UNCHANGED <<build_vars, api_vars>>

\* Calendar::get on the built calendar
Get(d) ==
    /\ pc = "done"
    /\ got' = Some([date |-> d, day |-> Calendar_get(days, d)])
    /\ UNCHANGED <<pc, year, mf, date, temporal, sanctoral, days,
                   temporal_celebration, sanctoral_celebrations, ret>>
    /\ UNCHANGED <<build_vars, api_vars>>

Next ==
    \/ \E y \in YearMin..YearMax : CalendarNew(y)
    \/ TemporalStep
    \/ TemporalDone
    \/ ResolveStep
    \/ \E d \in GetDates(year) : Get(d)

Spec == Init /\ [][Next]_vars

(* ---------------------- Calendar::new called repeatedly ----------------- *)

\* years built by the repeated calls, and the number of calls
BuildYearMin == 2025
BuildYearMax == 2026
MaxBuilds == 3

\* Calendar::new returns `Self { year, days }` to its caller, who keeps the
\* first calendar received for each year
CalendarReturn ==
    /\ pc = "done"
    /\ calendars' = IF year \in DOMAIN calendars THEN calendars
                    ELSE MapInsert(calendars, year, days)
    /\ builds' = builds + 1
    /\ pc' = "idle"
    /\ UNCHANGED <<year, mf, date, temporal, sanctoral, days, got,
                   temporal_celebration, sanctoral_celebrations, ret>>
    /\ UNCHANGED api_vars

NextBuilds ==
    \/ \E y \in BuildYearMin..BuildYearMax : builds < MaxBuilds /\ CalendarNew(y)
    \/ TemporalStep
    \/ TemporalDone
    \/ ResolveStep
    \/ CalendarReturn

SpecBuilds == Init /\ [][NextBuilds]_vars

(* ------------------- the calendar cache of the HTTP layer -------------- *)

\* handlers that run get_calendar concurrently, and calls they make in all
NumHandlers == 2
MaxCalls == 3
\* a year the /month route accepts and no NaiveDate holds
AbortYear == 300000

Handlers == 1..NumHandlers

\* Calendar::new(y) aborts: an expect() or unwrap() of build_temporal_cycle
\* and moveable_feasts meets None
Calendar_new_aborts(y) ==
    \/ easter_opt(y) = None
    \/ easter_opt(y - 1) = None
    \/ from_ymd_opt(y, 1, 1) = None

\* the Calendar that Calendar::new(y) returns
Calendar(y) == [year |-> y, days |-> Calendar_new(y)]

RECURSIVE outcomes_from(_, _)
\* Calendar::new on the years y..last: None where it aborts
outcomes_from(y, last) ==
    IF y > last THEN EmptyMap
    ELSE (y :> (IF Calendar_new_aborts(y) THEN None ELSE Some(Calendar(y))))
             @@ outcomes_from(y + 1, last)

\* Calendar::new on every year a handler asks for; it is a function of the
\* year, so its outcomes are computed once
CalendarNewOutcome ==
    outcomes_from(BuildYearMin, BuildYearMax) @@ outcomes_from(AbortYear, AbortYear)

\* get_calendar calls made so far
CallsMade(n) ==
    LET RECURSIVE sum(_)
        sum(t) == IF t = 0 THEN 0 ELSE threads[t].calls + sum(t - 1)
    IN  sum(n)

\* runs of Calendar::new(y) so far
Executed(y) == IF y \in DOMAIN executed THEN executed[y] ELSE 0

\* AppState::new: an empty cache, its mutex free; every handler idle
InitApi ==
    /\ pc = "api"
    /\ year = 0
    /\ mf = None
    /\ date = 0
    /\ temporal = EmptyMap
    /\ sanctoral = EmptyMap
    /\ days = EmptyMap
    /\ got = None
    /\ temporal_celebration = None
    /\ sanctoral_celebrations = << >>
    /\ ret = None
    /\ NoBuilds
    /\ cache = EmptyMap
    /\ mutex = [locked_by |-> None, poisoned |-> FALSE]
    /\ threads = [t \in Handlers |->
                     [pc |-> "idle", year |-> 0, ret |-> None,
                      outcome |-> "none", calls |-> 0]]
    /\ executed = EmptyMap

core_vars == <<pc, year, mf, date, temporal, sanctoral, days, got,
               temporal_celebration, sanctoral_celebrations, ret>>

\* a route handler calls state.get_calendar(y)
GetCalendar(t, y) ==
    /\ threads[t].pc = "idle"
    /\ CallsMade(NumHandlers) < MaxCalls
    /\ threads' = [threads EXCEPT ![t] =
                      [pc |-> "lock", year |-> y, ret |-> None,
                       outcome |-> "none", calls |-> @.calls + 1]]
    /\ UNCHANGED <<core_vars, build_vars, cache, mutex, executed>>

\* self.cache.lock().unwrap(): blocks while the mutex is held; on a poisoned
\* mutex lock() returns Err and unwrap() aborts the call
Lock(t) ==
    /\ threads[t].pc = "lock"
    /\ mutex.locked_by = None
    /\ IF mutex.poisoned
       THEN /\ threads' = [threads EXCEPT ![t].pc = "idle", ![t].outcome = "panicked"]
            /\ UNCHANGED mutex
       ELSE /\ threads' = [threads EXCEPT ![t].pc = "entry"]
            /\ mutex' = [mutex EXCEPT !.locked_by = Some(t)]
    /\ UNCHANGED <<core_vars, build_vars, cache, executed>>

\* Entry looking the year up without inserting it
Entry_without_insert(t) ==
    /\ threads[t].pc = "entry"
    /\ threads' = [threads EXCEPT ![t].pc = "new"]
    /\ UNCHANGED <<cache, mutex, executed>>
    /\ UNCHANGED <<core_vars, build_vars>>

\* cache.entry(year).or_insert_with(|| Calendar::new(year)): the closure runs
\* when the year is vacant; if it aborts, the guard is dropped while
\* unwinding, which poisons the mutex
Entry(t) ==
    LET y == threads[t].year
    IN  /\ threads[t].pc = "entry"
        /\ IF y \in DOMAIN cache
           THEN /\ threads' = [threads EXCEPT ![t].pc = "new"]
                /\ UNCHANGED <<cache, mutex, executed>>
           ELSE /\ executed' = MapInsert(executed, y, Executed(y) + 1)
                /\ IF CalendarNewOutcome[y] = None
                   THEN /\ threads' = [threads EXCEPT ![t].pc = "idle",
                                                      ![t].outcome = "panicked"]
                        /\ mutex' = [locked_by |-> None, poisoned |-> TRUE]
                        /\ UNCHANGED cache
                   ELSE /\ threads' = [threads EXCEPT ![t].pc = "new"]
                        /\ cache' = MapInsert(cache, y, unwrap(CalendarNewOutcome[y]))
                        /\ UNCHANGED mutex
        /\ UNCHANGED <<core_vars, build_vars>>

\* the tail expression Calendar::new(year) of get_calendar: the value
\* returned; the guard is dropped on the way out
New(t) ==
    LET y == threads[t].year
    IN  /\ threads[t].pc = "new"
        /\ executed' = MapInsert(executed, y, Executed(y) + 1)
        /\ IF CalendarNewOutcome[y] = None
           THEN /\ threads' = [threads EXCEPT ![t].pc = "idle",
                                              ![t].outcome = "panicked"]
                /\ mutex' = [locked_by |-> None, poisoned |-> TRUE]
           ELSE /\ threads' = [threads EXCEPT ![t].pc = "idle",
                                              ![t].outcome = "returned",
                                              ![t].ret = CalendarNewOutcome[y]]
                /\ mutex' = [mutex EXCEPT !.locked_by = None]
        /\ UNCHANGED <<core_vars, build_vars, cache>>

\* the steps of one call of get_calendar
GetCalendarStep(t) == Lock(t) \/ Entry(t) \/ New(t)

\* requests for years that Calendar::new can build
NextApi ==
    \/ \E t \in Handlers : \E y \in BuildYearMin..BuildYearMax : GetCalendar(t, y)
    \/ \E t \in Handlers : Lock(t)
    \/ \E t \in Handlers : Entry(t)
    \/ \E t \in Handlers : New(t)

SpecApi == InitApi /\ [][NextApi]_vars

\* every handler is a running task: a call that can take a step takes one
SpecApiFair == SpecApi /\ \A t \in Handlers : WF_vars(GetCalendarStep(t))

\* requests for any year the /month route parses
NextApiAbort ==
    \/ \E t \in Handlers :
          \E y \in (BuildYearMin..BuildYearMax) \cup {AbortYear} : GetCalendar(t, y)
    \/ \E t \in Handlers : Lock(t)
    \/ \E t \in Handlers : Entry(t)
    \/ \E t \in Handlers : New(t)

SpecApiAbort == InitApi /\ [][NextApiAbort]_vars

(* ----------------------- easter applied on its own ---------------------- *)

InitEaster ==
    /\ pc = "easter"
    /\ year \in EasterYearMin..EasterYearMax
    /\ mf = None
    /\ date = 0
    /\ temporal = EmptyMap
    /\ sanctoral = EmptyMap
    /\ days = EmptyMap
    /\ got = None
    /\ temporal_celebration = None
    /\ sanctoral_celebrations = << >>
    /\ ret = None
    /\ NoBuilds
    /\ NoApi

\* easter(year): returns the date, or expect() aborts on None
EasterCall ==
    /\ pc = "easter"
    /\ ret' = easter_opt(year)
    /\ pc' = IF easter_opt(year) = None THEN "panicked" ELSE "returned"
    /\ UNCHANGED <<year, mf, date, temporal, sanctoral, days, got,
                   temporal_celebration, sanctoral_celebrations>>
    /\ UNCHANGED <<build_vars, api_vars>>

NextEaster == EasterCall

SpecEaster == InitEaster /\ [][NextEaster]_vars

(* ------------------ resolve_precedence applied on its own -------------- *)

\* precedence numbers of the celebrations handed to the resolver: 1..MaxPrecedence
MaxPrecedence == 3
\* longest sanctoral list handed to the resolver
MaxSanctoral == 2

Ranks == {"ClassI", "ClassII", "ClassIII", "ClassIV", "Feria", "FeriaPrivileged"}

\* celebrations with a given id
CelebrationsWithId(id) ==
    { Celebration(id, r, "Feast", "White", p) : r \in Ranks, p \in 1..MaxPrecedence }

\* sanctoral lists of length n; the i-th celebration has id "s-"i
SanctoralLists(n) ==
    { [i \in 1..n |-> Celebration(<<"s-", i>>, f[i][1], "Feast", "White", f[i][2])] :
        f \in [1..n -> Ranks \X (1..MaxPrecedence)] }

InitResolve ==
    /\ pc = "resolve_precedence"
    /\ temporal_celebration \in CelebrationsWithId(<<"t">>)
    /\ \E n \in 0..MaxSanctoral : sanctoral_celebrations \in SanctoralLists(n)
    /\ year = 0
    /\ mf = None
    /\ date = 0
    /\ temporal = EmptyMap
    /\ sanctoral = EmptyMap
    /\ days = EmptyMap
    /\ got = None
    /\ ret = None
    /\ NoBuilds
    /\ NoApi

\* resolve_precedence(&temporal_celebration, &sanctoral_celebrations)
ResolveCall ==
    /\ pc = "resolve_precedence"
    /\ ret' = Some(resolve_precedence(temporal_celebration, sanctoral_celebrations))
    /\ pc' = "returned"
    /\ UNCHANGED <<year, mf, date, temporal, sanctoral, days, got,
                   temporal_celebration, sanctoral_celebrations>>
    /\ UNCHANGED <<build_vars, api_vars>>

NextResolve == ResolveCall

SpecResolve == InitResolve /\ [][NextResolve]_vars

(* =============================== claims ================================ *)

DatesOfYear(y) == jan1(y)..dec31(y)

\* C1: for every year in 1900..2100, easter(year) is a Sunday and lies
\* within [March 22, April 25] of that year.
C1_EasterSundayInRange ==
    (pc = "returned" /\ year >= 1900 /\ year <= 2100) =>
        /\ ret # None
        /\ weekday(unwrap(ret)) = "Sun"
        /\ unwrap(ret) >= days_from_civil(year, 3, 22)
        /\ unwrap(ret) <= days_from_civil(year, 4, 25)

\* easter has returned April 25, the latest date of the range
C1_Witness ==
    /\ pc = "returned"
    /\ year \in 1900..2100
    /\ ret = Some(days_from_civil(year, 4, 25))

\* the season intervals of a year as C2 states them, and the season of each
C2_Interval(i, d, y, m) ==
    LET epiphany  == days_from_civil(y, 1, 6)
        christmas == days_from_civil(y, 12, 25)
    IN  CASE i = 1  -> d >= jan1(y) /\ d < epiphany
          [] i = 2  -> d >= epiphany /\ d < m.septuagesima
          [] i = 3  -> d >= m.septuagesima /\ d < m.ash_wednesday
          [] i = 4  -> d >= m.ash_wednesday /\ d < m.passion_sunday
          [] i = 5  -> d >= m.passion_sunday /\ d < m.palm_sunday
          [] i = 6  -> d >= m.palm_sunday /\ d < m.easter
          [] i = 7  -> d >= m.easter /\ d < m.ascension
          [] i = 8  -> d >= m.ascension /\ d <= m.pentecost
          [] i = 9  -> d > m.pentecost /\ d < m.advent_1
          [] i = 10 -> d >= m.advent_1 /\ d < christmas
          [] i = 11 -> d >= christmas /\ d <= dec31(y)

C2_Season == <<"Christmas", "AfterEpiphany", "Septuagesima", "Lent", "Passiontide",
               "HolyWeek", "Easter", "Ascensiontide", "AfterPentecost", "Advent",
               "Christmas">>

\* C2: for every date of the year exactly one season interval holds, and
\* the season classify_date assigned to the date is that interval's season.
C2_SeasonsTileTheYear ==
    pc = "done" =>
        \A d \in DatesOfYear(year) :
            LET holds == {i \in 1..11 : C2_Interval(i, d, year, mf)}
            IN  /\ Cardinality(holds) = 1
                /\ d \in DOMAIN temporal
                /\ \A i \in holds : temporal[d].entry.season = C2_Season[i]

\* a built year in which the closed end of Ascensiontide and both ends of
\* the Christmas season were classified
C2_Witness ==
    /\ pc = "done"
    /\ temporal[mf.pentecost].entry.season = "Ascensiontide"
    /\ temporal[mf.pentecost + 1].entry.season = "AfterPentecost"
    /\ temporal[jan1(year)].entry.season = "Christmas"
    /\ temporal[dec31(year)].entry.season = "Christmas"
    /\ {temporal[d].entry.season : d \in DOMAIN temporal} =
          {C2_Season[i] : i \in 1..11}

\* C3: for every date that classify_special has been applied to, at most
\* one of its special-case predicates is true.
C3_AtMostOneSpecialPredicate ==
    \A d \in DOMAIN temporal : Cardinality(special_matches(d, mf)) <= 1

\* C4: the temporal cycle and the built calendar hold exactly the dates of
\* the year (365, or 366 in a leap year), and Calendar::get returns a day
\* exactly for the dates of the year.
C4_OneEntryPerDate ==
    /\ pc \in {"resolve", "done"} =>
          /\ \A d \in DOMAIN temporal : year_of(d) = year
          /\ Cardinality(DOMAIN temporal) = IF is_leap_year(year) THEN 366 ELSE 365
    /\ pc = "done" =>
          /\ \A d \in DOMAIN days : year_of(d) = year /\ days[d].date = d
          /\ Cardinality(DOMAIN days) = IF is_leap_year(year) THEN 366 ELSE 365
          /\ got # None =>
                (unwrap(got).day # None <=> year_of(unwrap(got).date) = year)

\* a leap year was built and Calendar::get was asked for Jan 1 of the next year
C4_Witness ==
    /\ pc = "done"
    /\ is_leap_year(year)
    /\ Cardinality(DOMAIN days) = 366
    /\ got # None
    /\ unwrap(got).date = days_from_civil(year + 1, 1, 1)
    /\ unwrap(got).day = None

\* rank ordinals as C5 gives them
C5_Ordinal(rank) ==
    CASE rank = "ClassI" -> 1 [] rank = "ClassII" -> 2 [] rank = "ClassIII" -> 3
      [] rank = "FeriaPrivileged" -> 4 [] rank = "ClassIV" -> 5 [] rank = "Feria" -> 6

\* (precedence number, rank ordinal) of a is below that of b
C5_KeyBelow(a, b) ==
    \/ a.precedence < b.precedence
    \/ a.precedence = b.precedence /\ C5_Ordinal(a.rank) < C5_Ordinal(b.rank)

C5_KeyEqual(a, b) == a.precedence = b.precedence /\ a.rank = b.rank

\* the resolver's inputs, temporal first
C5_Inputs == <<temporal_celebration>> \o sanctoral_celebrations

\* C5: the winner is an input whose (precedence number, rank ordinal) is
\* minimal, and among the inputs that tie on it the earliest one, the
\* temporal celebration being the first.
C5_WinnerIsStableMinimum ==
    pc = "returned" =>
        \E i \in 1..Len(C5_Inputs) :
            /\ unwrap(ret).winner = C5_Inputs[i]
            /\ \A j \in 1..Len(C5_Inputs) : ~C5_KeyBelow(C5_Inputs[j], C5_Inputs[i])
            /\ \A j \in 1..(i - 1) : ~C5_KeyEqual(C5_Inputs[j], C5_Inputs[i])

\* the temporal celebration won a tie against two sanctoral ones of rank
\* FeriaPrivileged, which sorts before ClassIV
C5_Witness ==
    /\ pc = "returned"
    /\ Len(sanctoral_celebrations) = 2
    /\ temporal_celebration.rank = "FeriaPrivileged"
    /\ C5_KeyEqual(temporal_celebration, sanctoral_celebrations[1])
    /\ sanctoral_celebrations[2].rank = "ClassIV"
    /\ sanctoral_celebrations[2].precedence = temporal_celebration.precedence
    /\ unwrap(ret).winner = temporal_celebration

\* position of a celebration in the resolver's inputs (ids are distinct)
C6_Position(c) == CHOOSE i \in 1..Len(C5_Inputs) : C5_Inputs[i] = c

\* C6: the commemorations are exactly the inputs other than the winner
\* whose rank is not Feria, each once, in sorted order.
C6_CommemorationsAreNonFeriaLosers ==
    pc = "returned" =>
        LET cm == unwrap(ret).commemorations
            w  == unwrap(ret).winner
        IN  /\ {cm[i] : i \in 1..Len(cm)} =
                  {C5_Inputs[j] : j \in {k \in 1..Len(C5_Inputs) :
                       C5_Inputs[k] # w /\ C5_Inputs[k].rank # "Feria"}}
            /\ \A a, b \in 1..Len(cm) : a # b => cm[a] # cm[b]
            /\ \A a, b \in 1..Len(cm) : a < b =>
                  /\ ~C5_KeyBelow(cm[b], cm[a])
                  /\ C5_KeyEqual(cm[a], cm[b]) => C6_Position(cm[a]) < C6_Position(cm[b])

\* a ClassIV loser was commemorated and a Feria loser was dropped
C6_Witness ==
    /\ pc = "returned"
    /\ Len(sanctoral_celebrations) = 2
    /\ sanctoral_celebrations[1].rank = "Feria"
    /\ sanctoral_celebrations[2].rank = "ClassIV"
    /\ unwrap(ret).winner = temporal_celebration
    /\ unwrap(ret).commemorations = <<sanctoral_celebrations[2]>>

\* C7: on every Sunday of a built calendar the winning celebration has
\* category Sunday or a precedence number of at most 5.
C7_SundayWinner ==
    pc = "done" =>
        \A d \in DOMAIN days :
            weekday(d) = "Sun" =>
                \/ days[d].celebration.category = "Sunday"
                \/ days[d].celebration.precedence <= 5

\* a built year with a Sunday kept by its generic Sunday celebration against
\* a sanctoral feast, and a Sunday displaced by a sanctoral feast
C7_Witness ==
    /\ pc = "done"
    /\ \E d \in DOMAIN days :
          /\ weekday(d) = "Sun"
          /\ MapGet(sanctoral, d) # << >>
          /\ days[d].celebration.category = "Sunday"
          /\ days[d].celebration.precedence = 6
    /\ \E d \in DOMAIN days :
          /\ weekday(d) = "Sun"
          /\ days[d].celebration.category # "Sunday"
          /\ days[d].celebration = MapGet(sanctoral, d)[1]

\* the moveable feasts C8 names: date and id
C8_Feasts(m) ==
    { <<m.easter, <<"easter-sunday">> >>,
      <<m.easter + 7, <<"low-sunday">> >>,
      <<m.ash_wednesday, <<"ash-wednesday">> >>,
      <<m.palm_sunday, <<"palm-sunday">> >>,
      <<m.holy_thursday, <<"holy-thursday">> >>,
      <<m.good_friday, <<"good-friday">> >>,
      <<m.holy_saturday, <<"holy-saturday">> >>,
      <<m.ascension, <<"ascension">> >>,
      <<m.pentecost, <<"pentecost">> >>,
      <<m.corpus_christi, <<"corpus-christi">> >>,
      <<m.sacred_heart, <<"sacred-heart">> >>,
      <<m.christ_the_king, <<"christ-the-king">> >> }

\* C8: on the date of each moveable feast the winning celebration of the
\* built calendar is that feast, Easter Sunday with precedence 1.
C8_MoveableFeastsWin ==
    pc = "done" =>
        /\ \A f \in C8_Feasts(mf) :
              f[1] \in DOMAIN days /\ days[f[1]].celebration.id = f[2]
        /\ days[mf.easter].celebration.precedence = 1

\* a built year in which a sanctoral feast of equal precedence and rank
\* fell on Sacred Heart and was commemorated
C8_Witness ==
    /\ pc = "done"
    /\ MapGet(sanctoral, mf.sacred_heart) # << >>
    /\ MapGet(sanctoral, mf.sacred_heart)[1].precedence = 4
    /\ days[mf.sacred_heart].celebration.id = <<"sacred-heart">>
    /\ days[mf.sacred_heart].commemorations = MapGet(sanctoral, mf.sacred_heart)

\* C9: no two different dates of a built calendar have winning
\* celebrations with the same id.
C9_UniqueIds ==
    pc = "done" =>
        \A d1, d2 \in DOMAIN days :
            d1 < d2 => days[d1].celebration.id # days[d2].celebration.id

\* the date C10 asks Holy Family to resolve to, for the octave of Dec 25 of y-1
C10_Expected(y) ==
    IF weekday(days_from_civil(y - 1, 12, 25)) = "Sun"
    THEN days_from_civil(y - 1, 12, 30)
    ELSE CHOOSE d \in days_from_civil(y - 1, 12, 26)..days_from_civil(y, 1, 1) :
             weekday(d) = "Sun"

HasId(list, id) == \E i \in 1..Len(list) : list[i].id = id

\* C10: Holy Family resolves to the Sunday of the Christmas octave (Dec 30
\* when Christmas is a Sunday) and holy-family is in the sanctoral map of
\* the civil year that contains the resolved date.
C10_HolyFamilyPlaced ==
    pc = "done" =>
        LET hf == holy_family_date(year)
        IN  /\ hf = C10_Expected(year)
            /\ HasId(MapGet(IF year_of(hf) = year THEN sanctoral
                            ELSE build_sanctoral_cycle(year - 1), hf),
                     <<"holy-family">>)

(* --------------- easter applied to any proleptic Gregorian year -------- *)

\* proleptic years on which easter is applied, zero and negative ones included
\* (the years -MaxProlepticYear..MaxProlepticYear)
MaxProlepticYear == 200

InitEasterProleptic ==
    /\ pc = "easter"
    /\ year \in (0 - MaxProlepticYear)..MaxProlepticYear
    /\ mf = None
    /\ date = 0
    /\ temporal = EmptyMap
    /\ sanctoral = EmptyMap
    /\ days = EmptyMap
    /\ got = None
    /\ temporal_celebration = None
    /\ sanctoral_celebrations = << >>
    /\ ret = None
    /\ NoBuilds
    /\ NoApi

SpecEasterProleptic == InitEasterProleptic /\ [][NextEaster]_vars

\* C11: for every proleptic Gregorian year, zero and negative years
\* included, easter returns without aborting and its result is a Sunday
\* within [March 22, April 25] of that year.
C11_EasterTotalAndExact ==
    pc # "easter" =>
        /\ pc = "returned"
        /\ ret # None
        /\ weekday(unwrap(ret)) = "Sun"
        /\ unwrap(ret) >= days_from_civil(year, 3, 22)
        /\ unwrap(ret) <= days_from_civil(year, 4, 25)

\* the offsets from Easter and the weekdays C12 names, by field
C12_Offsets ==
    { <<"septuagesima", -63, "Sun">>,  <<"ash_wednesday", -46, "Wed">>,
      <<"passion_sunday", -14, "Sun">>, <<"palm_sunday", -7, "Sun">>,
      <<"holy_thursday", -3, "Thu">>,   <<"good_friday", -2, "Fri">>,
      <<"holy_saturday", -1, "Sat">>,   <<"ascension", 39, "Thu">>,
      <<"pentecost", 49, "Sun">>,       <<"corpus_christi", 60, "Thu">>,
      <<"sacred_heart", 68, "Fri">> }

\* C12: every moveable feast of moveable_feasts lies at its fixed offset
\* from Easter of the year and falls on the weekday its name requires.
C12_OffsetsAndWeekdays ==
    pc # "idle" =>
        /\ mf.easter = easter(year)
        /\ \A o \in C12_Offsets :
              /\ mf[o[1]] = mf.easter + o[2]
              /\ weekday(mf[o[1]]) = o[3]

\* the moveable feasts of 2026 have been computed: Easter on April 5, Ash
\* Wednesday on February 18, Ascension on May 14, Pentecost on May 24
C12_Witness ==
    /\ pc = "temporal"
    /\ year = 2026
    /\ mf.easter = days_from_civil(2026, 4, 5)
    /\ mf.septuagesima = days_from_civil(2026, 2, 1)
    /\ mf.ash_wednesday = days_from_civil(2026, 2, 18)
    /\ mf.palm_sunday = days_from_civil(2026, 3, 29)
    /\ mf.ascension = days_from_civil(2026, 5, 14)
    /\ mf.pentecost = days_from_civil(2026, 5, 24)
    /\ mf.corpus_christi = days_from_civil(2026, 6, 4)

\* C13: the first Sunday of Advent is a Sunday within [November 27,
\* December 3] of the year, and no Sunday is nearer to November 30.
C13_Advent1NearestSunday ==
    pc # "idle" =>
        LET nov30 == days_from_civil(year, 11, 30)
            distance(d) == IF d >= nov30 THEN d - nov30 ELSE nov30 - d
        IN  /\ weekday(mf.advent_1) = "Sun"
            /\ mf.advent_1 >= days_from_civil(year, 11, 27)
            /\ mf.advent_1 <= days_from_civil(year, 12, 3)
            /\ \A d \in (nov30 - 7)..(nov30 + 7) :
                  weekday(d) = "Sun" /\ d # mf.advent_1
                      => distance(d) > distance(mf.advent_1)

\* November 30 of 2023 is a Thursday, the first weekday from which the code
\* goes forward: Advent starts on December 3
C13_Witness ==
    /\ pc = "temporal"
    /\ year = 2023
    /\ weekday(days_from_civil(2023, 11, 30)) = "Thu"
    /\ mf.advent_1 = days_from_civil(2023, 12, 3)

\* C14: Christ the King is the last Sunday of October: a Sunday within
\* [October 25, October 31] of the year.
C14_ChristTheKingLastSundayOfOctober ==
    pc # "idle" =>
        /\ weekday(mf.christ_the_king) = "Sun"
        /\ mf.christ_the_king >= days_from_civil(year, 10, 25)
        /\ mf.christ_the_king <= days_from_civil(year, 10, 31)

\* October 31 of 2021 is a Sunday and is Christ the King; in 2022 October 31
\* is a Monday and the feast is the day before
C14_Witness ==
    /\ pc = "temporal"
    /\ \/ /\ year = 2021
          /\ weekday(days_from_civil(2021, 10, 31)) = "Sun"
          /\ mf.christ_the_king = days_from_civil(2021, 10, 31)
       \/ /\ year = 2022
          /\ weekday(days_from_civil(2022, 10, 31)) = "Mon"
          /\ mf.christ_the_king = days_from_civil(2022, 10, 30)

\* the Wednesday, Friday and Saturday of the week that follows Sunday s
C15_Triad(s) == <<s + 3, s + 5, s + 6>>

\* the third Sunday of September: the one Sunday within September 15..21
C15_ThirdSundayOfSeptember(y) ==
    CHOOSE d \in days_from_civil(y, 9, 15)..days_from_civil(y, 9, 21) :
        weekday(d) = "Sun"

\* C15: ember_days holds exactly twelve strictly increasing dates: the
\* Wednesday, Friday and Saturday of the weeks following the first Sunday of
\* Lent (Ash Wednesday + 4), Pentecost, the third Sunday of September and
\* the third Sunday of Advent (first Sunday of Advent + 14).
C15_EmberDays ==
    pc # "idle" =>
        /\ Len(mf.ember_days) = 12
        /\ \A i \in 1..11 : mf.ember_days[i] < mf.ember_days[i + 1]
        /\ mf.ember_days = C15_Triad(mf.ash_wednesday + 4)
                           \o C15_Triad(mf.pentecost)
                           \o C15_Triad(C15_ThirdSundayOfSeptember(year))
                           \o C15_Triad(mf.advent_1 + 14)
        /\ \A i \in 1..12 :
              weekday(mf.ember_days[i]) = <<"Wed", "Fri", "Sat">>[((i - 1) % 3) + 1]
        /\ \A s \in {mf.ash_wednesday + 4, mf.pentecost, mf.advent_1 + 14} :
              weekday(s) = "Sun"

\* September 1 of 2024 is a Sunday, so the third Sunday is September 15 and
\* the September ember days are the 18th, 20th and 21st
C15_Witness ==
    /\ pc = "temporal"
    /\ year = 2024
    /\ weekday(days_from_civil(2024, 9, 1)) = "Sun"
    /\ Len(mf.ember_days) = 12
    /\ mf.ember_days[7] = days_from_civil(2024, 9, 18)
    /\ mf.ember_days[8] = days_from_civil(2024, 9, 20)
    /\ mf.ember_days[9] = days_from_civil(2024, 9, 21)
    /\ mf.ember_days[1] = days_from_civil(2024, 2, 21)
    /\ mf.ember_days[4] = days_from_civil(2024, 5, 22)
    /\ mf.ember_days[10] = days_from_civil(2024, 12, 18)

\* C16: rogation_days holds exactly three dates, the Monday, Tuesday and
\* Wednesday immediately before the Ascension, the last of them being the
\* day before the Ascension.
C16_RogationDays ==
    pc # "idle" =>
        /\ Len(mf.rogation_days) = 3
        /\ mf.rogation_days = <<mf.ascension - 3, mf.ascension - 2, mf.ascension - 1>>
        /\ weekday(mf.rogation_days[1]) = "Mon"
        /\ weekday(mf.rogation_days[2]) = "Tue"
        /\ weekday(mf.rogation_days[3]) = "Wed"
        /\ mf.rogation_days[3] + 1 = mf.ascension

\* the rogation days of 2026 are May 11, 12 and 13, before the Ascension on
\* May 14
C16_Witness ==
    /\ pc = "temporal"
    /\ year = 2026
    /\ mf.ascension = days_from_civil(2026, 5, 14)
    /\ mf.rogation_days = <<days_from_civil(2026, 5, 11),
                            days_from_civil(2026, 5, 12),
                            days_from_civil(2026, 5, 13)>>

\* the start from which C17 counts the weeks of a season
C17_SeasonStart(season) ==
    CASE season = "AfterEpiphany"  -> days_from_civil(year, 1, 6)
      [] season = "Septuagesima"   -> mf.septuagesima
      [] season = "Lent"           -> mf.ash_wednesday + 4
      [] season = "Easter"         -> mf.easter
      [] season = "AfterPentecost" -> mf.pentecost
      [] season = "Advent"         -> mf.advent_1

\* the week number C17 states for date d in a season
C17_Week(season, d) ==
    IF season \in {"Christmas", "Passiontide", "HolyWeek", "Ascensiontide"}
    THEN 1
    ELSE IF season = "Lent" /\ d < C17_SeasonStart("Lent")
         THEN 0
         ELSE ((d - C17_SeasonStart(season)) \div 7) + 1

\* C17: the week number classify_date assigns is 1 in Christmas,
\* Passiontide, HolyWeek and Ascensiontide, floor(days since the start of
\* the season / 7) + 1 in the other seasons, with Lent counted from its
\* first Sunday and 0 before it; Lent weeks lie in 0..4, Advent weeks in 1..4.
C17_WeekNumbers ==
    \A d \in DOMAIN temporal :
        LET e == temporal[d].entry
        IN  /\ e.week = C17_Week(e.season, d)
            /\ e.season = "Lent" => e.week \in 0..4
            /\ e.season = "Advent" => e.week \in 1..4

\* the temporal cycle of 2022 is built: Ash Wednesday (March 2) is in week 0
\* of Lent, the eve of Passion Sunday in week 4, and December 24, 27 days
\* after the first Sunday of Advent, in week 4 of Advent
C17_Witness ==
    /\ pc = "done"
    /\ year = 2022
    /\ temporal[days_from_civil(2022, 3, 2)].entry = [season |-> "Lent", week |-> 0]
    /\ temporal[days_from_civil(2022, 3, 6)].entry = [season |-> "Lent", week |-> 1]
    /\ temporal[days_from_civil(2022, 4, 2)].entry = [season |-> "Lent", week |-> 4]
    /\ mf.advent_1 = days_from_civil(2022, 11, 27)
    /\ temporal[days_from_civil(2022, 12, 24)].entry = [season |-> "Advent", week |-> 4]
    /\ temporal[days_from_civil(2022, 1, 6)].entry = [season |-> "AfterEpiphany", week |-> 1]
    /\ temporal[days_from_civil(2022, 12, 25)].entry = [season |-> "Christmas", week |-> 1]

\* celebration c is the winner or one of the commemorations of date d
C18_AppearsOn(c, d) ==
    \/ days[d].celebration.id = c.id
    \/ \E j \in 1..Len(days[d].commemorations) : days[d].commemorations[j].id = c.id

\* C18: every celebration of the sanctoral cycle of the year appears in the
\* built calendar on its own date, as the winner or as a commemoration, and
\* on no other date.
C18_SanctoralKeptOnOwnDate ==
    pc = "done" =>
        \A d \in DOMAIN sanctoral :
            \A i \in 1..Len(sanctoral[d]) :
                /\ d \in DOMAIN days
                /\ C18_AppearsOn(sanctoral[d][i], d)
                /\ \A other \in DOMAIN days \ {d} :
                      ~C18_AppearsOn(sanctoral[d][i], other)

\* in the built calendar of 2024 the Annunciation (March 25) fell in Holy
\* Week, lost to the Monday of Holy Week and is commemorated on March 25
C18_Witness ==
    /\ pc = "done"
    /\ year = 2024
    /\ LET d == days_from_civil(2024, 3, 25)
       IN  /\ MapGet(sanctoral, d) # << >>
           /\ sanctoral[d][1].id = <<"annunciation">>
           /\ days[d].celebration.id # <<"annunciation">>
           /\ days[d].season = "HolyWeek"
           /\ \E j \in 1..Len(days[d].commemorations) :
                 days[d].commemorations[j] = sanctoral[d][1]

\* C19: in every built year the winner of December 25 is christmas, of rank
\* ClassI, precedence 1 and color White, in the season Christmas; the winner
\* of January 1 is circumcision and the winner of January 6 is epiphany,
\* whatever the weekday of those dates.
C19_ChristmasCircumcisionEpiphany ==
    pc = "done" =>
        LET christmas == days[days_from_civil(year, 12, 25)]
        IN  /\ christmas.celebration.id = <<"christmas">>
            /\ christmas.celebration.rank = "ClassI"
            /\ christmas.celebration.precedence = 1
            /\ christmas.celebration.color = "White"
            /\ christmas.color = "White"
            /\ christmas.season = "Christmas"
            /\ days[days_from_civil(year, 1, 1)].celebration.id = <<"circumcision">>
            /\ days[days_from_civil(year, 1, 6)].celebration.id = <<"epiphany">>

\* the built calendar of 2022, in which December 25 is a Sunday and
\* January 1 a Saturday: christmas, circumcision and epiphany won
C19_Witness ==
    /\ pc = "done"
    /\ year = 2022
    /\ weekday(days_from_civil(2022, 12, 25)) = "Sun"
    /\ days[days_from_civil(2022, 12, 25)].celebration.id = <<"christmas">>
    /\ days[days_from_civil(2022, 12, 25)].celebration.precedence = 1
    /\ days[days_from_civil(2022, 1, 1)].celebration.id = <<"circumcision">>
    /\ days[days_from_civil(2022, 1, 6)].celebration.id = <<"epiphany">>

\* the date C20 states for Holy Name: the Sunday within January 2..5, or
\* January 2 when none of the four is a Sunday
C20_Expected(y) ==
    LET range == days_from_civil(y, 1, 2)..days_from_civil(y, 1, 5)
    IN  IF \E d \in range : weekday(d) = "Sun"
        THEN CHOOSE d \in range : weekday(d) = "Sun"
        ELSE days_from_civil(y, 1, 2)

\* the places (date, index) at which the sanctoral cycle holds Holy Name
C20_Places ==
    UNION { { <<d, i>> : i \in { j \in 1..Len(sanctoral[d]) :
                                   sanctoral[d][j].id = <<"holy-name-of-jesus">> } } :
            d \in DOMAIN sanctoral }

\* C20: build_sanctoral_cycle places holy-name-of-jesus exactly once, on the
\* Sunday within [January 2, January 5] of the year, or on January 2 when
\* none of those dates is a Sunday.
C20_HolyNamePlacedOnce ==
    pc \in {"resolve", "done"} =>
        /\ Cardinality(C20_Places) = 1
        /\ \A p \in C20_Places : p[1] = C20_Expected(year)

\* the sanctoral cycle of 2020 is built: January 5 is the Sunday of the
\* range, the last date the search looks at, and holds Holy Name
C20_Witness ==
    /\ pc = "resolve"
    /\ year = 2020
    /\ weekday(days_from_civil(2020, 1, 5)) = "Sun"
    /\ HasId(MapGet(sanctoral, days_from_civil(2020, 1, 5)), <<"holy-name-of-jesus">>)

\* the sanctoral cycle of 2023 is built: January 1 is a Sunday, none of
\* January 2..5 is, and Holy Name is on January 2
C20_WitnessDefault ==
    /\ pc = "resolve"
    /\ year = 2023
    /\ weekday(days_from_civil(2023, 1, 1)) = "Sun"
    /\ HasId(MapGet(sanctoral, days_from_civil(2023, 1, 2)), <<"holy-name-of-jesus">>)

\* the temporal celebration C21 states for date d of the temporal cycle
C21_Expected(d) ==
    LET entry == temporal[d].entry
    IN  IF temporal[d].special # None THEN unwrap(temporal[d].special)
        ELSE IF weekday(d) = "Sun" THEN sunday(entry.season, entry.week)
        ELSE feria(entry.season, entry.week, weekday(d))

\* C21: for every date of the build the resolver receives the special
\* celebration of the date if there is one, else the generic Sunday of its
\* (season, week) on a Sunday, else the generic feria of its (season, week,
\* weekday), together with exactly the sanctoral list of the date, empty when
\* the date has none; the day stored is what the resolver returns for them.
C21_ResolverArguments ==
    [][pc = "resolve" =>
          /\ temporal_celebration' = C21_Expected(date)
          /\ sanctoral_celebrations' =
                 (IF date \in DOMAIN sanctoral THEN sanctoral[date] ELSE << >>)
          /\ days'[date].celebration =
                 resolve_precedence(C21_Expected(date),
                     IF date \in DOMAIN sanctoral THEN sanctoral[date] ELSE << >>).winner
      ]_vars

\* the iteration for Easter Sunday 2026 has run: the resolver received the
\* special celebration, not the generic Sunday, and an empty sanctoral list
C21_Witness ==
    /\ pc = "resolve"
    /\ year = 2026
    /\ date = days_from_civil(2026, 4, 6)
    /\ temporal[days_from_civil(2026, 4, 5)].special # None
    /\ weekday(days_from_civil(2026, 4, 5)) = "Sun"
    /\ temporal_celebration.id = <<"easter-sunday">>
    /\ sanctoral_celebrations = << >>

\* the iteration for January 25, 2026 has run, a Sunday without a special
\* celebration and with a sanctoral feast: the resolver received the generic
\* Sunday and the one-element sanctoral list
C21_WitnessSunday ==
    /\ pc = "resolve"
    /\ year = 2026
    /\ date = days_from_civil(2026, 1, 26)
    /\ temporal[days_from_civil(2026, 1, 25)].special = None
    /\ temporal_celebration = sunday("AfterEpiphany", 3)
    /\ Len(sanctoral_celebrations) = 1
    /\ sanctoral_celebrations[1].id = <<"conversion-of-st-paul">>

\* an id is the sequence of the pieces of its format string, the first of
\* them a literal: it is the empty string when it has no piece or when its
\* leading literal is empty
C22_IdIsEmpty(id) == Len(id) = 0 \/ id[1] = ""

\* C22: for every date of a built calendar the color of the day is the
\* color of its winning celebration, and the id of the winner is non-empty.
C22_ColorAndIdOfWinner ==
    \A d \in DOMAIN days :
        /\ days[d].color = days[d].celebration.color
        /\ ~C22_IdIsEmpty(days[d].celebration.id)

\* the built calendar of 2026: on June 29 the red feast of Ss. Peter and Paul
\* won over the green feria after Pentecost and the day is red
C22_Witness ==
    /\ pc = "done"
    /\ year = 2026
    /\ LET d == days_from_civil(2026, 6, 29)
       IN  /\ days[d].season = "AfterPentecost"
           /\ days[d].celebration.id = <<"ss-peter-paul">>
           /\ days[d].celebration.color = "Red"
           /\ days[d].color = "Red"
           /\ feria(days[d].season, days[d].week, weekday(d)).color = "Green"

\* C23: Calendar::new is a function of the year alone: whatever was built
\* before, a finished build holds the days of a build from scratch and equals
\* the calendar an earlier build of the same year returned, and the calendars
\* already returned for other years stay what they were.
C23_CalendarNewIsPure ==
    /\ pc = "done" =>
          /\ days = Calendar_new(year)
          /\ year \in DOMAIN calendars => days = calendars[year]
    /\ pc \in {"done", "idle"} =>
          \A y \in DOMAIN calendars : calendars[y] = Calendar_new(y)

\* the third build has finished: the first two were of the two different
\* years, this one builds 2025 again and holds the same days as the first
C23_Witness ==
    /\ pc = "done"
    /\ builds = 2
    /\ DOMAIN calendars = {2025, 2026}
    /\ year = 2025
    /\ DOMAIN days = DOMAIN calendars[2025]
    /\ days = calendars[2025]
    /\ days # calendars[2026]

\* C24: the cache memoizes: over any sequence of get_calendar calls
\* Calendar::new(year) runs at most once for each year.
C24_BuiltAtMostOncePerYear ==
    \A y \in DOMAIN executed : executed[y] <= 1

\* C25: after any sequence of requests, one that makes the build abort
\* included, a get_calendar call for a year that can be built acquires the
\* lock and returns: only calls for a year whose build aborts are aborted.
C25_ValidCallsSurviveAnAbort ==
    \A t \in Handlers :
        threads[t].outcome = "panicked" => Calendar_new_aborts(threads[t].year)

\* handlers inside the locked section of get_calendar
C26_Inside == { t \in Handlers : threads[t].pc \in {"entry", "new"} }

\* the state part of C26
C26_Invariant ==
    /\ Cardinality(C26_Inside) <= 1
    /\ \A t \in C26_Inside : mutex.locked_by = Some(t)
    /\ mutex.locked_by # None => unwrap(mutex.locked_by) \in C26_Inside
    /\ DOMAIN cache = DOMAIN executed
    /\ \A y \in DOMAIN cache : cache[y].year = y
    /\ \A t \in Handlers :
          /\ threads[t].pc = "new" \/ threads[t].outcome = "returned"
                => threads[t].year \in DOMAIN cache
          /\ threads[t].outcome = "returned"
                => unwrap(threads[t].ret) = cache[threads[t].year]
          /\ threads[t].outcome # "panicked"

\* the step part of C26: an entry of the cache stays what it is
C26_EntriesKept ==
    \A y \in DOMAIN cache : y \in DOMAIN cache' /\ cache'[y] = cache[y]

\* C26: under any interleaving of concurrent get_calendar calls for years
\* that can be built, the cache holds one entry for each year whose call has
\* passed the insertion, an entry is never replaced or removed, at most one
\* call is inside the locked section, every call terminates, and each call
\* returns a calendar equal to the cached entry of its year.
C26_ConcurrentCalls ==
    /\ []C26_Invariant
    /\ [][C26_EntriesKept]_vars
    /\ \A t \in Handlers :
          (threads[t].pc = "lock") ~> (threads[t].pc = "idle" /\ threads[t].outcome = "returned")

\* one handler is inside the locked section for 2026 while the other waits
\* for the lock after an earlier call for 2025 has filled the cache
C26_Witness ==
    /\ pc = "api"
    /\ threads[1].pc = "new" /\ threads[1].year = 2026
    /\ threads[2].pc = "lock" /\ threads[2].year = 2025
    /\ mutex.locked_by = Some(1)
    /\ DOMAIN cache = {2025, 2026}

\* the fixed order of the seasons through a civil year
C27_Order ==
    <<"Christmas", "AfterEpiphany", "Septuagesima", "Lent", "Passiontide",
      "HolyWeek", "Easter", "Ascensiontide", "AfterPentecost", "Advent",
      "Christmas">>

\* dates of the temporal cycle whose season differs from that of the day before
C27_Changes ==
    { d \in DOMAIN temporal :
        d - 1 \in DOMAIN temporal
        /\ temporal[d].entry.season # temporal[d - 1].entry.season }

\* C27: from January 1 to December 31 the season changes only from one
\* season of the fixed order to the next, so every season occurs as one
\* contiguous run (Christmas as the first and the last run), and within a
\* run the week number never decreases and grows by at most 1 a day.
C27_SeasonsInOrder ==
    /\ \A d \in DOMAIN temporal :
          d - 1 \in DOMAIN temporal =>
              LET before == temporal[d - 1].entry
                  after  == temporal[d].entry
              IN  IF after.season = before.season
                  THEN after.week \in {before.week, before.week + 1}
                  ELSE \E i \in 1..10 :
                          before.season = C27_Order[i] /\ after.season = C27_Order[i + 1]
    /\ pc \in {"resolve", "done"} =>
          /\ temporal[jan1(year)].entry.season = "Christmas"
          /\ temporal[dec31(year)].entry.season = "Christmas"
          /\ Cardinality(C27_Changes) = 10
          /\ { temporal[d].entry.season : d \in C27_Changes } =
                 { C27_Order[i] : i \in 2..11 }

\* the temporal cycle of 2026 is complete: the ten changes of season fall on
\* January 6, Septuagesima, Ash Wednesday, Passion Sunday, Palm Sunday,
\* Easter, the Ascension, the day after Pentecost, Advent and December 25
C27_Witness ==
    /\ pc = "resolve"
    /\ year = 2026
    /\ C27_Changes = { days_from_civil(2026, 1, 6), mf.septuagesima,
                       mf.ash_wednesday, mf.passion_sunday, mf.palm_sunday,
                       mf.easter, mf.ascension, mf.pentecost + 1, mf.advent_1,
                       days_from_civil(2026, 12, 25) }
    /\ temporal[days_from_civil(2026, 2, 22)].entry.week
           = temporal[days_from_civil(2026, 2, 21)].entry.week + 1

\* C28: every date key of the sanctoral cycle holds exactly one
\* celebration, of a rank other than Feria and a precedence within 1..9, and
\* every day of the built calendar has at most one commemoration.
C28_OneSanctoralPerDate ==
    /\ \A d \in DOMAIN sanctoral :
          /\ Len(sanctoral[d]) = 1
          /\ sanctoral[d][1].rank # "Feria"
          /\ sanctoral[d][1].precedence \in 1..9
    /\ \A d \in DOMAIN days : Len(days[d].commemorations) <= 1

\* the built calendar of 2026: the Conversion of St. Paul, alone on January
\* 25, lost to the Sunday and is the one commemoration of that day; Holy
\* Name is alone on Sunday January 4
C28_Witness ==
    /\ pc = "done"
    /\ year = 2026
    /\ Len(sanctoral[days_from_civil(2026, 1, 25)]) = 1
    /\ days[days_from_civil(2026, 1, 25)].commemorations
           = sanctoral[days_from_civil(2026, 1, 25)]
    /\ Len(sanctoral[days_from_civil(2026, 1, 4)]) = 1
    /\ sanctoral[days_from_civil(2026, 1, 4)][1].id = <<"holy-name-of-jesus">>

\* C29: the Holy Family date resolved for the year lies in the year before:
\* December 30 when that Christmas is a Sunday, else a Sunday found within
\* December 26..31, never January 1 and never the default; so the sanctoral
\* cycle holds no holy-family and no day has it as winner or commemoration.
C29_HolyFamilyNeverPlaced ==
    pc # "idle" =>
        LET hf == holy_family_date(year)
            dec25_prev == days_from_civil(year - 1, 12, 25)
            found == first_sunday_from(dec25_prev + 1, days_from_civil(year, 1, 1))
        IN  /\ year_of(hf) = year - 1
            /\ IF weekday(dec25_prev) = "Sun"
               THEN hf = days_from_civil(year - 1, 12, 30)
               ELSE /\ found # None
                    /\ hf = unwrap(found)
                    /\ weekday(hf) = "Sun"
                    /\ hf >= days_from_civil(year - 1, 12, 26)
                    /\ hf <= days_from_civil(year - 1, 12, 31)
            /\ \A d \in DOMAIN sanctoral : ~HasId(sanctoral[d], <<"holy-family">>)
            /\ \A d \in DOMAIN days :
                  /\ days[d].celebration.id # <<"holy-family">>
                  /\ ~HasId(days[d].commemorations, <<"holy-family">>)

\* the calendar of 2023 is built: January 1, 2023 is a Sunday, the last day
\* the search may look at, yet the date resolved is December 30, 2022,
\* because that Christmas was a Sunday, and January 1 holds no holy-family
C29_Witness ==
    /\ pc = "done"
    /\ year = 2023
    /\ weekday(days_from_civil(2023, 1, 1)) = "Sun"
    /\ holy_family_date(2023) = days_from_civil(2022, 12, 30)
    /\ days[days_from_civil(2023, 1, 1)].celebration.id = <<"circumcision">>
    /\ ~HasId(MapGet(sanctoral, days_from_civil(2023, 1, 1)), <<"holy-family">>)
    /\ DOMAIN sanctoral # {}

\* a sanctoral celebration of precedence below 6 falls on date d
C30_Impeded(d) ==
    \E i \in 1..Len(MapGet(sanctoral, d)) : sanctoral[d][i].precedence < 6

\* the part of C30 about every day: Rose only on the two Sundays, and only
\* when the generic Sunday is the winner
C30_RoseOnlyOnTheTwoSundays ==
    \A d \in DOMAIN days :
        days[d].color = "Rose" =>
            /\ d \in {mf.advent_1 + 14, mf.easter - 21}
            /\ days[d].celebration = sunday(days[d].season, days[d].week)

\* C30: a day of the built calendar is Rose only if it is the third Sunday
\* of Advent (Advent-1 + 14) or the fourth Sunday of Lent (Easter - 21) and
\* the generic Sunday is the winner; the third Sunday of Advent is Rose in
\* every year, the fourth Sunday of Lent exactly when no sanctoral
\* celebration of precedence below 6 falls on it.
C30_RoseSundays ==
    /\ C30_RoseOnlyOnTheTwoSundays
    /\ pc = "done" =>
          /\ days[mf.advent_1 + 14].color = "Rose"
          /\ days[mf.easter - 21].color = "Rose" <=> ~C30_Impeded(mf.easter - 21)

\* the built calendar of 2023: the fourth Sunday of Lent is March 19, St.
\* Joseph wins and the day is white with the Rose Sunday commemorated; the
\* third Sunday of Advent, December 17, is Rose
C30_Witness ==
    /\ pc = "done"
    /\ year = 2023
    /\ mf.easter - 21 = days_from_civil(2023, 3, 19)
    /\ C30_Impeded(mf.easter - 21)
    /\ days[mf.easter - 21].celebration.id = <<"st-joseph">>
    /\ days[mf.easter - 21].color = "White"
    /\ days[mf.easter - 21].commemorations = <<sunday("Lent", 4)>>
    /\ mf.advent_1 + 14 = days_from_civil(2023, 12, 17)
    /\ days[mf.advent_1 + 14].celebration = sunday("Advent", 3)
    /\ days[mf.advent_1 + 14].color = "Rose"

\* the built calendar of 2026: nothing falls on the fourth Sunday of Lent,
\* March 15, and the day is Rose
C30_WitnessRoseInLent ==
    /\ pc = "done"
    /\ year = 2026
    /\ mf.easter - 21 = days_from_civil(2026, 3, 15)
    /\ ~C30_Impeded(mf.easter - 21)
    /\ days[mf.easter - 21].color = "Rose"

====
